---------------------------- MODULE Spec2Model ----------------------------
(***************************************************************************)
(* A model of SaveVidBot (src/main.py): a chat bot that downloads the      *)
(* video behind a link with an extraction backend (yt_dlp), sends it back  *)
(* to the user and keeps per-user usage statistics in one JSON document.   *)
(*                                                                         *)
(* Every message is handled by its own coroutine on one event loop; the    *)
(* blocking download runs in the loop's default thread pool.  A coroutine  *)
(* runs without interruption by other coroutines from one await to the     *)
(* next, so each handler action below is "the pending await completes and  *)
(* the synchronous code after it runs up to the next await".  The steps of *)
(* the download thread interleave freely with everything else.             *)
(***************************************************************************)
EXTENDS Integers, Sequences, FiniteSets, TLC

\* The number of messages the bot receives in a run.
MaxRequests == 2

\* main.py:250 and main.py:411, 50 * 1024 * 1024 bytes.
Ceiling == 50 * 1024 * 1024

\* The two coroutines that may be in flight at the same time.
Handlers == {1, 2}

\* message.from_user.id (main.py:383).
Users == {"u1", "u2"}

-----------------------------------------------------------------------------
(* Python's Optional values: None and a present value. *)
None == <<"None">>
Some(v) == <<"Some", v>>
Val(o) == o[2]

\* Python truthiness of an optional integer: None and 0 are false.
Truthy(o) == o # None /\ Val(o) # 0

\* Python's `a or b` on optional integers (main.py:249).
PyOr(a, b) == IF Truthy(a) THEN a ELSE b

-----------------------------------------------------------------------------
(* Text.  A text is a sequence of characters.  The fixed sentences the bot *)
(* shows the user are written in Russian in the source; each is kept here  *)
(* as one non-empty unit (an English gloss) because no code inspects them. *)
(* The texts of the backend's exceptions are inspected by substring tests, *)
(* so they are kept character by character.                                *)

\* main.py:299 first marker (typographic apostrophe, written U+2019)
MarkerBotCurly ==
    <<"S", "i", "g", "n", " ", "i", "n", " ", "t", "o", " ", "c",
      "o", "n", "f", "i", "r", "m", " ", "y", "o", "u", "U+2019", "r",
      "e", " ", "n", "o", "t", " ", "a", " ", "b", "o", "t">>
\* main.py:299 second marker (ASCII apostrophe)
MarkerBotStraight ==
    <<"S", "i", "g", "n", " ", "i", "n", " ", "t", "o", " ", "c",
      "o", "n", "f", "i", "r", "m", " ", "y", "o", "u", "'", "r",
      "e", " ", "n", "o", "t", " ", "a", " ", "b", "o", "t">>
\* main.py:302
MarkerFormat ==
    <<"R", "e", "q", "u", "e", "s", "t", "e", "d", " ", "f", "o",
      "r", "m", "a", "t", " ", "i", "s", " ", "n", "o", "t", " ",
      "a", "v", "a", "i", "l", "a", "b", "l", "e">>
\* main.py:304
MarkerCookies ==
    <<"T", "h", "e", " ", "p", "r", "o", "v", "i", "d", "e", "d",
      " ", "Y", "o", "u", "T", "u", "b", "e", " ", "a", "c", "c",
      "o", "u", "n", "t", " ", "c", "o", "o", "k", "i", "e", "s",
      " ", "a", "r", "e", " ", "n", "o", " ", "l", "o", "n", "g",
      "e", "r", " ", "v", "a", "l", "i", "d">>
\* main.py:311
MarkerUnavailable ==
    <<"V", "i", "d", "e", "o", " ", "u", "n", "a", "v", "a", "i",
      "l", "a", "b", "l", "e">>
\* main.py:313
MarkerPrivate ==
    <<"P", "r", "i", "v", "a", "t", "e", " ", "v", "i", "d", "e",
      "o">>
\* main.py:315
MarkerAge ==
    <<"a", "g", "e">>
\* str(e) of a failure of the extraction backend: ''
MsgEmpty == << >>
\* str(e) of a failure of the extraction backend: 'ERROR: Video unavailable'
MsgUnavailable ==
    <<"E", "R", "R", "O", "R", ":", " ", "V", "i", "d", "e", "o",
      " ", "u", "n", "a", "v", "a", "i", "l", "a", "b", "l", "e">>
\* str(e) of a failure of the extraction backend: 'Private video. Sign in'
MsgPrivate ==
    <<"P", "r", "i", "v", "a", "t", "e", " ", "v", "i", "d", "e",
      "o", ".", " ", "S", "i", "g", "n", " ", "i", "n">>
\* str(e) of a failure of the extraction backend: 'Sign in to confirm your age'
MsgAgeRestricted ==
    <<"S", "i", "g", "n", " ", "i", "n", " ", "t", "o", " ", "c",
      "o", "n", "f", "i", "r", "m", " ", "y", "o", "u", "r", " ",
      "a", "g", "e">>
\* str(e) of a failure of the extraction backend: 'HTTP Error 404: Page Not Found'
MsgNotFound ==
    <<"H", "T", "T", "P", " ", "E", "r", "r", "o", "r", " ", "4",
      "0", "4", ":", " ", "P", "a", "g", "e", " ", "N", "o", "t",
      " ", "F", "o", "u", "n", "d">>
\* str(e) of a failure of the extraction backend: 'Read timed out.'
MsgTimeout ==
    <<"R", "e", "a", "d", " ", "t", "i", "m", "e", "d", " ", "o",
      "u", "t", ".">>
\* str(e) of a failure of the extraction backend: '[Errno 30] Read-only file system'
MsgReadOnly ==
    <<"[", "E", "r", "r", "n", "o", " ", "3", "0", "]", " ", "R",
      "e", "a", "d", "-", "o", "n", "l", "y", " ", "f", "i", "l",
      "e", " ", "s", "y", "s", "t", "e", "m">>
\* str(e) of a failure of the extraction backend: "Sign in to confirm you're not a bot"
MsgBot ==
    <<"S", "i", "g", "n", " ", "i", "n", " ", "t", "o", " ", "c",
      "o", "n", "f", "i", "r", "m", " ", "y", "o", "u", "U+2019", "r",
      "e", " ", "n", "o", "t", " ", "a", " ", "b", "o", "t">>
\* str(e) of a failure of the extraction backend: 'Requested format is not available'
MsgFormat ==
    <<"R", "e", "q", "u", "e", "s", "t", "e", "d", " ", "f", "o",
      "r", "m", "a", "t", " ", "i", "s", " ", "n", "o", "t", " ",
      "a", "v", "a", "i", "l", "a", "b", "l", "e">>
\* str(e) of a failure of the extraction backend: 'The provided YouTube account cookies are no longer valid'
MsgCookies ==
    <<"T", "h", "e", " ", "p", "r", "o", "v", "i", "d", "e", "d",
      " ", "Y", "o", "u", "T", "u", "b", "e", " ", "a", "c", "c",
      "o", "u", "n", "t", " ", "c", "o", "o", "k", "i", "e", "s",
      " ", "a", "r", "e", " ", "n", "o", " ", "l", "o", "n", "g",
      "e", "r", " ", "v", "a", "l", "i", "d">>
\* str(e) of a failure of the extraction backend: 'Unsupported URL'
MsgUnsupported ==
    <<"U", "n", "s", "u", "p", "p", "o", "r", "t", "e", "d", " ",
      "U", "R", "L">>
\* main.py:251, the text of the exception raised on an oversize probe. The source
\* text is Cyrillic; it is transliterated here and, like the original, contains
\* none of the Latin markers tested at main.py:311-315.
MsgOversize ==
    <<"V", "i", "d", "e", "o", " ", "p", "r", "e", "v", "y", "s",
      "h", "a", "e", "t", " ", "m", "a", "k", "s", "i", "m", "a",
      "l", "n", "y", "i", " ", "r", "a", "z", "m", "e", "r", " ",
      "(", "5", "0", " ", "M", "B", ")">>

\* str(e) of a failure of the extraction backend: "Requested format is not available. Sign in to confirm you're not a bot"
MsgFormatBot ==
    <<"R", "e", "q", "u", "e", "s", "t", "e", "d", " ", "f", "o",
      "r", "m", "a", "t", " ", "i", "s", " ", "n", "o", "t", " ",
      "a", "v", "a", "i", "l", "a", "b", "l", "e", ".", " ", "S",
      "i", "g", "n", " ", "i", "n", " ", "t", "o", " ", "c", "o",
      "n", "f", "i", "r", "m", " ", "y", "o", "u", "'", "r", "e",
      " ", "n", "o", "t", " ", "a", " ", "b", "o", "t">>

\* str(e) of a failure of the extraction backend: "The provided YouTube account cookies are no longer valid. Requested format is not available"
MsgCookiesFormat ==
    <<"T", "h", "e", " ", "p", "r", "o", "v", "i", "d", "e", "d",
      " ", "Y", "o", "u", "T", "u", "b", "e", " ", "a", "c", "c",
      "o", "u", "n", "t", " ", "c", "o", "o", "k", "i", "e", "s",
      " ", "a", "r", "e", " ", "n", "o", " ", "l", "o", "n", "g",
      "e", "r", " ", "v", "a", "l", "i", "d", ".", " ", "R", "e",
      "q", "u", "e", "s", "t", "e", "d", " ", "f", "o", "r", "m",
      "a", "t", " ", "i", "s", " ", "n", "o", "t", " ", "a", "v",
      "a", "i", "l", "a", "b", "l", "e">>

\* main.py:86, first recognized header
HeaderNetscape ==
    <<"#", " ", "N", "e", "t", "s", "c", "a", "p", "e", " ", "H",
      "T", "T", "P", " ", "C", "o", "o", "k", "i", "e", " ", "F",
      "i", "l", "e">>

\* main.py:86, second recognized header
HeaderHttp ==
    <<"#", " ", "H", "T", "T", "P", " ", "C", "o", "o", "k", "i",
      "e", " ", "F", "i", "l", "e">>

\* main.py:27
PathSecrets ==
    <<"/", "e", "t", "c", "/", "s", "e", "c", "r", "e", "t", "s",
      "/", "c", "o", "o", "k", "i", "e", "s", ".", "t", "x", "t">>

\* main.py:28
PathData ==
    <<"/", "m", "n", "t", "/", "d", "a", "t", "a", "/", "c", "o",
      "o", "k", "i", "e", "s", ".", "t", "x", "t">>

\* a path COOKIES_PATH may name
PathCustom ==
    <<"/", "r", "u", "n", "/", "c", "o", "o", "k", "i", "e", "s",
      ".", "t", "x", "t">>

\* a value of COOKIES_PATH: the path above between spaces
EnvCustom ==
    <<" ", "/", "r", "u", "n", "/", "c", "o", "o", "k", "i", "e",
      "s", ".", "t", "x", "t", " ">>

\* a value of COOKIES_PATH: spaces only
EnvBlank ==
    <<" ", " ">>

\* a first line as readline() returns it
LineNetscape ==
    <<"#", " ", "N", "e", "t", "s", "c", "a", "p", "e", " ", "H",
      "T", "T", "P", " ", "C", "o", "o", "k", "i", "e", " ", "F",
      "i", "l", "e", "\n">>

\* a first line as readline() returns it, indented
LineHttp ==
    <<" ", " ", "#", " ", "H", "T", "T", "P", " ", "C", "o", "o",
      "k", "i", "e", " ", "F", "i", "l", "e", "\n">>

\* a first line as readline() returns it
LineOther ==
    <<"#", " ", "C", "o", "o", "k", "i", "e", "s", "\n">>

\* Python's `marker in text`.
Contains(text, marker) ==
    \E i \in 0..(Len(text) - Len(marker)) :
        SubSeq(text, i + 1, i + Len(marker)) = marker

\* str.lower() on ASCII letters (main.py:315).
UpperLetters ==
    <<"A", "B", "C", "D", "E", "F", "G", "H", "I", "J", "K", "L", "M",
      "N", "O", "P", "Q", "R", "S", "T", "U", "V", "W", "X", "Y", "Z">>
LowerLetters ==
    <<"a", "b", "c", "d", "e", "f", "g", "h", "i", "j", "k", "l", "m",
      "n", "o", "p", "q", "r", "s", "t", "u", "v", "w", "x", "y", "z">>
LowerChar(c) ==
    IF \E i \in 1..26 : UpperLetters[i] = c
    THEN LowerLetters[CHOOSE i \in 1..26 : UpperLetters[i] = c]
    ELSE c
Lower(text) == [i \in 1..Len(text) |-> LowerChar(text[i])]

\* The user-facing sentences of download_video (main.py:290-317).
TxtSizeExceeded == <<"The video exceeds the maximum size (50 MB).">>
TxtUnsupported == <<"Unsupported platform or video format.">>
TxtAuthRequired == <<"Sign-in required (anti-bot). Check cookies.txt and poToken.">>
TxtFormatUnavailable == <<"The requested format is unavailable. Try another video.">>
TxtCookiesExpired == <<"The cookies have expired. Export fresh cookies.">>
TxtExtractionFailed == <<"Video extraction error: ">>
TxtUnavailable == <<"The video is unavailable or deleted.">>
TxtPrivate == <<"The video is private.">>
TxtAgeRestricted == <<"The video is age-restricted.">>
TxtDownloadFailed == <<"Download error: ">>

-----------------------------------------------------------------------------
(* Exceptions.  An exception is its class and its text, str(e).            *)

\* The classes the except clauses of download_video tell apart, and the
\* classes they are subclasses of (yt_dlp.utils): UnsupportedError is an
\* ExtractorError; everything is an Exception.
Classes ==
    {"MaxDownloadsReached", "UnsupportedError", "ExtractorError",
     "DownloadError", "OSError", "Exception"}

IsInstance(cls, base) ==
    \/ cls = base
    \/ base = "Exception"
    \/ cls = "UnsupportedError" /\ base = "ExtractorError"

Exc(cls, msg) == [cls |-> cls, msg |-> msg]

\* The texts a failure of the backend may carry.
Messages ==
    {MsgEmpty, MsgUnavailable, MsgPrivate, MsgAgeRestricted, MsgNotFound,
     MsgTimeout, MsgReadOnly, MsgBot, MsgFormat, MsgCookies, MsgUnsupported,
     MsgFormatBot, MsgCookiesFormat}

\* What ydl.extract_info may raise (main.py:242, main.py:254).
BackendExceptions ==
    {Exc(c, m) : c \in Classes \ {"Exception"}, m \in Messages}

\* ClassifyExtractor with the format marker tested before the bot marker.
ClassifyExtractorFormatFirst(msg) ==
    IF Contains(msg, MarkerFormat) THEN TxtFormatUnavailable
    ELSE IF Contains(msg, MarkerBotCurly) \/ Contains(msg, MarkerBotStraight)
    THEN TxtAuthRequired
    ELSE IF Contains(msg, MarkerCookies) THEN TxtCookiesExpired
    ELSE TxtExtractionFailed \o msg

\* main.py:296-306, the body of `except ExtractorError`.
ClassifyExtractor(msg) ==
    IF Contains(msg, MarkerBotCurly) \/ Contains(msg, MarkerBotStraight)
    THEN TxtAuthRequired
    ELSE IF Contains(msg, MarkerFormat) THEN TxtFormatUnavailable
    ELSE IF Contains(msg, MarkerCookies) THEN TxtCookiesExpired
    ELSE TxtExtractionFailed \o msg

\* ClassifyGeneric with the sentence of its last case left out.
ClassifyGenericRawOnly(msg) ==
    IF Contains(msg, MarkerUnavailable) THEN TxtUnavailable
    ELSE IF Contains(msg, MarkerPrivate) THEN TxtPrivate
    ELSE IF Contains(Lower(msg), MarkerAge) THEN TxtAgeRestricted
    ELSE msg

\* main.py:308-317, the body of `except Exception`.
ClassifyGeneric(msg) ==
    IF Contains(msg, MarkerUnavailable) THEN TxtUnavailable
    ELSE IF Contains(msg, MarkerPrivate) THEN TxtPrivate
    ELSE IF Contains(Lower(msg), MarkerAge) THEN TxtAgeRestricted
    ELSE TxtDownloadFailed \o msg

\* main.py:288-317, the except clauses of download_video in their order:
\* the error description returned for an exception of sync_download.
Classify(e) ==
    IF IsInstance(e.cls, "MaxDownloadsReached") THEN TxtSizeExceeded
    ELSE IF IsInstance(e.cls, "UnsupportedError") THEN TxtUnsupported
    ELSE IF IsInstance(e.cls, "ExtractorError") THEN ClassifyExtractor(e.msg)
    ELSE ClassifyGeneric(e.msg)

\* What download_video returns: (result, None) at main.py:286 and
\* (None, description) at main.py:288-317.
ReturnResult(filename, title) ==
    [result |-> Some(<<filename, title>>), error |-> None]
ReturnError(e) == [result |-> None, error |-> Some(Classify(e))]

\* Python truthiness of download_video's first slot (main.py:400): a pair
\* is true, None is false.
ResultTruthy(r) == r.result # None

-----------------------------------------------------------------------------
(* URLs.  The bot sees the text of a message; three texts stand for the    *)
(* shapes that matter: two links the validator accepts and one text it     *)
(* rejects.                                                                *)
UrlYouTube == "https://youtu.be/abc"
UrlTikTok == "https://vm.tiktok.com/xyz"
UrlBad == "hello"
Urls == {UrlYouTube, UrlTikTok, UrlBad}

\* main.py:97-109 on the three texts: the first matches the pattern of
\* main.py:99, the second that of main.py:100, and "hello" has no dot, so
\* not even the generic pattern of main.py:104 matches it.
is_valid_url(url) == url \in {UrlYouTube, UrlTikTok}

\* The characters of the host part of a URL, which detect_platform searches.
UrlChars(url) ==
    CASE url = UrlYouTube -> <<"y", "o", "u", "t", "u", ".", "b", "e">>
      [] url = UrlTikTok ->
            <<"v", "m", ".", "t", "i", "k", "t", "o", "k", ".", "c", "o", "m">>
      [] OTHER -> <<"h", "e", "l", "l", "o">>

\* main.py:157-168.
detect_platform(url) ==
    LET u == UrlChars(url) IN
    IF \/ Contains(u, <<"y", "o", "u", "t", "u", "b", "e", ".", "c", "o", "m">>)
       \/ Contains(u, <<"y", "o", "u", "t", "u", ".", "b", "e">>)
    THEN "YouTube"
    ELSE IF Contains(u, <<"t", "i", "k", "t", "o", "k", ".", "c", "o", "m">>)
    THEN "TikTok"
    ELSE IF Contains(u, <<"i", "n", "s", "t", "a", "g", "r", "a", "m", ".", "c", "o", "m">>)
    THEN "Instagram"
    ELSE IF \/ Contains(u, <<"t", "w", "i", "t", "t", "e", "r", ".", "c", "o", "m">>)
            \/ Contains(u, <<"x", ".", "c", "o", "m">>)
    THEN "Twitter/X"
    ELSE IF Contains(u, <<"f", "a", "c", "e", "b", "o", "o", "k", ".", "c", "o", "m">>)
    THEN "Facebook"
    ELSE "Other"

\* The platforms of the links above.
Platforms == {detect_platform(url) : url \in {u \in Urls : is_valid_url(u)}}

-----------------------------------------------------------------------------
(* The probe.  info is the dictionary ydl.extract_info(url, download=False) *)
(* returns; only its two size fields are read (main.py:249).               *)
OptSizes == {None, Some(0), Some(Ceiling), Some(Ceiling + 1)}
Infos == [filesize : OptSizes, filesize_approx : OptSizes]

\* main.py:249.
ProbedSize(info) == PyOr(info.filesize, info.filesize_approx)

\* SizeOverCeiling without the fallback to filesize_approx.
SizeOverCeilingExactOnly(info) ==
    Truthy(info.filesize) /\ Val(info.filesize) > Ceiling

\* main.py:249-250: the condition under which sync_download raises before
\* the transfer.
SizeOverCeiling(info) ==
    LET filesize == ProbedSize(info) IN
    Truthy(filesize) /\ Val(filesize) > Ceiling

-----------------------------------------------------------------------------
(* Storage.  A path is <<base, extension>>; the file system maps the paths *)
(* that exist to their files.  A file remembers the request whose transfer *)
(* wrote it and its size.                                                  *)

\* main.py:199, "outtmpl": the base name is the same for every request.
OutTmpl == "downloaded_video"

\* The extensions a transfer may produce or prepare_filename may name; the
\* first four are the ones main.py:260 probes, in that order.
ProbeExts == <<"mp4", "webm", "mkv", "avi">>
MediaExts == {"mp4", "webm", "mkv", "avi", "flv"}
Paths == {<<OutTmpl, e>> : e \in MediaExts}

\* The sizes a finished transfer may have.
FileSizes == {1024, Ceiling, Ceiling + 1}

Exists(f, p) == p \in DOMAIN f
WriteFile(f, p, file) == [q \in DOMAIN f \cup {p} |-> IF q = p THEN file ELSE f[q]]
RemoveFile(f, p) == [q \in DOMAIN f \ {p} |-> f[q]]
\* os.rename replaces an existing target.
RenameFile(f, a, b) ==
    [q \in (DOMAIN f \ {a}) \cup {b} |-> IF q = b THEN f[a] ELSE f[q]]

\* main.py:255, ydl.prepare_filename(info): the template with info's ext.
prepare_filename(ext) == <<OutTmpl, ext>>

\* Locate taking the last of the probed extensions that exists.
LocateLast(f, filename) ==
    IF Exists(f, filename) THEN filename
    ELSE LET base == filename[1]
             found == {i \in 1..Len(ProbeExts) : Exists(f, <<base, ProbeExts[i]>>)}
         IN IF found = {} THEN filename
            ELSE <<base, ProbeExts[CHOOSE i \in found : \A j \in found : j <= i]>>

\* main.py:258-264: the name sync_download settles on after the transfer.
Locate(f, filename) ==
    IF Exists(f, filename) THEN filename
    ELSE LET base == filename[1]
             found == {i \in 1..Len(ProbeExts) : Exists(f, <<base, ProbeExts[i]>>)}
         IN IF found = {} THEN filename
            ELSE <<base, ProbeExts[CHOOSE i \in found : \A j \in found : i <= j]>>

-----------------------------------------------------------------------------
(* The usage ledger, user_stats.json.  The document is missing, holds a    *)
(* dictionary (user -> record), or holds text json.load rejects.           *)
\* The empty dictionary.
EmptyMap == [x \in {} |-> x]
EmptyStats == EmptyMap
MissingLedger == [state |-> "missing", stats |-> EmptyStats]
CorruptLedger == [state |-> "corrupt", stats |-> EmptyStats]
OkLedger(stats) == [state |-> "ok", stats |-> stats]

\* main.py:112-119.  ioFails: reading an existing document raises.
load_fails(led, ioFails) ==
    \/ led.state = "corrupt"
    \/ led.state = "ok" /\ ioFails
load_user_stats(led, ioFails) ==
    IF led.state = "ok" /\ ~ioFails THEN led.stats ELSE EmptyStats

\* main.py:122-127.  outcome: "ok"; "refused", open() fails and the document
\* is as before; "partial", open() truncated the document and the dump
\* failed, leaving text that is not JSON.
SaveOutcomes == {"ok", "refused", "partial"}
\* save_user_stats that writes nothing.
save_user_statsDropped(led, stats, outcome) == led

save_user_stats(led, stats, outcome) ==
    CASE outcome = "ok" -> OkLedger(stats)
      [] outcome = "refused" -> led
      [] OTHER -> CorruptLedger

\* main.py:135-141.
NewRecord(t) ==
    [downloads_count |-> 0, total_size |-> 0, platforms |-> EmptyMap,
     first_use |-> t, last_activity |-> t]

\* dict.get(platform, 0) (main.py:147).
PlatformCount(platforms, p) == IF p \in DOMAIN platforms THEN platforms[p] ELSE 0

\* UpdatedStats with the platform's count set to 1 instead of added to.
UpdatedStatsFlatHistogram(stats, uid, platform, file_size, t) ==
    LET r0 == IF uid \in DOMAIN stats THEN stats[uid] ELSE NewRecord(t)
        r1 == [r0 EXCEPT !.downloads_count = @ + 1,
                         !.total_size = @ + file_size,
                         !.last_activity = t,
                         !.platforms =
                             [p \in DOMAIN r0.platforms \cup {platform} |->
                                 IF p = platform THEN 1
                                 ELSE PlatformCount(r0.platforms, p)]]
    IN [u \in DOMAIN stats \cup {uid} |-> IF u = uid THEN r1 ELSE stats[u]]

\* UpdatedStats with total_size assigned instead of added to.
UpdatedStatsSetsSize(stats, uid, platform, file_size, t) ==
    LET r0 == IF uid \in DOMAIN stats THEN stats[uid] ELSE NewRecord(t)
        r1 == [r0 EXCEPT !.downloads_count = @ + 1,
                         !.total_size = file_size,
                         !.last_activity = t,
                         !.platforms =
                             [p \in DOMAIN r0.platforms \cup {platform} |->
                                 PlatformCount(r0.platforms, p)
                                 + (IF p = platform THEN 1 ELSE 0)]]
    IN [u \in DOMAIN stats \cup {uid} |-> IF u = uid THEN r1 ELSE stats[u]]

\* UpdatedStats starting from an empty dictionary instead of the loaded one.
UpdatedStatsForgetful(stats, uid, platform, file_size, t) ==
    LET r0 == NewRecord(t)
    IN (uid :> [r0 EXCEPT !.downloads_count = 1, !.total_size = file_size,
                          !.platforms = (platform :> 1)])

\* main.py:132-147: the dictionary update_user_stats saves, from the one
\* it loaded.
UpdatedStats(stats, uid, platform, file_size, t) ==
    LET r0 == IF uid \in DOMAIN stats THEN stats[uid] ELSE NewRecord(t)
        r1 == [r0 EXCEPT !.downloads_count = @ + 1,
                         !.total_size = @ + file_size,
                         !.last_activity = t,
                         !.platforms =
                             [p \in DOMAIN r0.platforms \cup {platform} |->
                                 PlatformCount(r0.platforms, p)
                                 + (IF p = platform THEN 1 ELSE 0)]]
    IN [u \in DOMAIN stats \cup {uid} |-> IF u = uid THEN r1 ELSE stats[u]]

\* main.py:130-149.
update_user_stats(led, uid, platform, file_size, t, ioFails, outcome) ==
    save_user_stats(led,
        UpdatedStats(load_user_stats(led, ioFails), uid, platform, file_size, t),
        outcome)

\* update_raises when the except clauses of the ledger let a failed read or
\* write through.
update_raisesUncaught(led, ioFails, outcome) ==
    load_fails(led, ioFails) \/ outcome # "ok"

\* main.py:113-118 and 123-127: whether update_user_stats raises.  The read
\* and the write are inside `try ... except Exception`, which logs the
\* failure; the code between them works on a dictionary of records the
\* bot wrote itself.
update_raises(led, ioFails, outcome) == FALSE

\* main.py:152-154.
get_user_stats(led, uid, ioFails) ==
    LET stats == load_user_stats(led, ioFails)
    IN IF uid \in DOMAIN stats THEN Some(stats[uid]) ELSE None

-----------------------------------------------------------------------------
(* Cookie discovery (main.py:72-94).  COOKIES_PATH is the text of the      *)
(* environment variable (empty when unset); the cookie store maps each     *)
(* candidate path to what is there: nothing, a file that cannot be read,   *)
(* or a file with its first line.                                          *)

\* str.strip(): leading and trailing whitespace removed.
Whitespace == {" ", "\t", "\n", "\r"}
Strip(text) ==
    LET keep == {i \in 1..Len(text) : text[i] \notin Whitespace} IN
    IF keep = {} THEN << >>
    ELSE LET lo == CHOOSE i \in keep : \A j \in keep : i <= j
             hi == CHOOSE i \in keep : \A j \in keep : j <= i
         IN SubSeq(text, lo, hi)

\* str.startswith().
StartsWith(text, prefix) ==
    Len(text) >= Len(prefix) /\ SubSeq(text, 1, Len(prefix)) = prefix

\* main.py:26-29.
DEFAULT_COOKIES_CANDIDATES == <<PathSecrets, PathData>>

\* The values of COOKIES_PATH and the paths they and the defaults name.
CookieEnvs == {<< >>, EnvBlank, EnvCustom}
CookiePaths == {PathCustom, PathSecrets, PathData}

\* What may be at a candidate path.
MissingFile == [kind |-> "missing", first |-> << >>]
UnreadableFile == [kind |-> "unreadable", first |-> << >>]
TextFile(first) == [kind |-> "file", first |-> first]
CookieFileStates ==
    {MissingFile, UnreadableFile, TextFile(LineNetscape), TextFile(LineHttp),
     TextFile(LineOther)}
CookieStores == [CookiePaths -> CookieFileStates]
NoCookies == [p \in CookiePaths |-> MissingFile]

\* main.py:75-79: the candidates, in the order they are tried.
CookieCandidates(env) ==
    LET env_path == Strip(env) IN
    (IF env_path # << >> THEN <<env_path>> ELSE << >>)
        \o DEFAULT_COOKIES_CANDIDATES

\* main.py:82: `p and os.path.isfile(p)`.
IsFile(files, p) ==
    p # << >> /\ p \in DOMAIN files /\ files[p].kind # "missing"

\* main.py:83-91: open() and readline() do not raise and the first line,
\* stripped, starts with one of the two headers.
ReadsAsCookieJar(file) ==
    /\ file.kind = "file"
    /\ LET first == Strip(file.first) IN
       StartsWith(first, HeaderNetscape) \/ StartsWith(first, HeaderHttp)

\* find_cookiefile giving up at the first candidate it cannot read.
find_cookiefileStopsAtUnreadable(env, files) ==
    LET c == CookieCandidates(env)
        ends == {i \in 1..Len(c) :
                    IsFile(files, c[i])
                    /\ (ReadsAsCookieJar(files[c[i]])
                        \/ files[c[i]].kind = "unreadable")}
    IN IF ends = {} THEN None
       ELSE LET i == CHOOSE k \in ends : \A j \in ends : k <= j
            IN IF ReadsAsCookieJar(files[c[i]]) THEN Some(c[i]) ELSE None

\* main.py:72-94.
find_cookiefile(env, files) ==
    LET c == CookieCandidates(env)
        valid == {i \in 1..Len(c) :
                     IsFile(files, c[i]) /\ ReadsAsCookieJar(files[c[i]])}
    IN IF valid = {} THEN None
       ELSE Some(c[CHOOSE i \in valid : \A j \in valid : i <= j])

-----------------------------------------------------------------------------
VARIABLES
    pc,          \* per handler: the await it is suspended at, or the step
                 \* its download thread is about to take
    req,         \* per handler: the message it handles (id, user, url)
    info,        \* per handler: the probe's info, once the probe returned
    future,      \* per handler: the outcome of run_in_executor, once set
    ret,         \* per handler: what download_video returned, once it did
    transferred, \* per handler: extract_info(download=True) was invoked
    filename,    \* per handler: the local variable filename
    file_size,   \* per handler: the local variable file_size (main.py:408)
    upload,      \* per handler: the file reply_video is uploading
    delivered,   \* per handler: the file reply_video delivered, if any
    failmsgs,    \* per handler: the failure messages shown to the user
    raised,      \* per handler: the calls of this request that raised
    fs,          \* the working directory
    ledger,      \* user_stats.json
    lastIO,      \* how the last read and write of the ledger went
    storageFault,\* some read or write of the ledger has failed
    deliveries,  \* per user and platform: videos delivered so far
    bytesSent,   \* per user: the sizes of the videos delivered, summed
    snapshot,    \* what the last statistics query returned
    now,         \* the clock read by datetime.now()
    nreq,        \* messages received so far
    cookiesPath, \* the environment variable COOKIES_PATH
    cookieFiles, \* what is at the candidate paths of the cookie file
    cookiefile   \* per handler: the local variable cookiefile (main.py:194)

engineVars == <<info, future, ret, transferred>>
localVars == <<filename, file_size, upload>>
userVars == <<delivered, failmsgs, raised>>
ledgerVars == <<ledger, lastIO, storageFault, deliveries, bytesSent, snapshot>>
clockVars == <<now, nreq>>
cookieVars == <<cookiesPath, cookieFiles, cookiefile>>
vars == <<pc, req, engineVars, localVars, userVars, fs, ledgerVars, clockVars,
          cookieVars>>

NoRequest == [id |-> 0, user |-> "u1", url |-> UrlBad]
NoPath == <<OutTmpl, "">>
NoIO == [load |-> "none", save |-> "none"]
\* download_video has not been called for the message.
NotCalled == <<"NotCalled">>

\* The state after construction, with COOKIES_PATH set to env and the
\* cookie store being files.
InitWith(env, files) ==
    /\ pc = [h \in Handlers |-> "idle"]
    /\ req = [h \in Handlers |-> NoRequest]
    /\ info = [h \in Handlers |-> None]
    /\ future = [h \in Handlers |-> None]
    /\ ret = [h \in Handlers |-> None]
    /\ transferred = [h \in Handlers |-> FALSE]
    /\ filename = [h \in Handlers |-> NoPath]
    /\ file_size = [h \in Handlers |-> 0]
    /\ upload = [h \in Handlers |-> None]
    /\ delivered = [h \in Handlers |-> None]
    /\ failmsgs = [h \in Handlers |-> << >>]
    /\ raised = [h \in Handlers |-> {}]
    /\ fs = EmptyMap
    /\ ledger = MissingLedger
    /\ lastIO = NoIO
    /\ storageFault = FALSE
    /\ deliveries = [u \in Users |-> [p \in Platforms |-> 0]]
    /\ bytesSent = [u \in Users |-> 0]
    /\ snapshot = [user |-> "u1", stats |-> None]
    /\ now = 0
    /\ nreq = 0
    /\ cookiesPath = env
    /\ cookieFiles = files
    /\ cookiefile = [h \in Handlers |-> NotCalled]

\* COOKIES_PATH is not set and there is no cookie file.
Init == InitWith(<< >>, NoCookies)

\* Any value of COOKIES_PATH and anything at the candidate paths.
InitCookies ==
    \E env \in CookieEnvs, files \in CookieStores : InitWith(env, files)

InFlight(h) == pc[h] \notin {"idle", "done"}

\* A gateway call made at `at` completes: ok, or it raises.
Gateway(h, at, ok) ==
    raised' = [raised EXCEPT ![h] = IF ok THEN @ ELSE @ \cup {at}]

\* A failure message reaches the user if the call that carries it is ok.
Shows(h, msg, ok) ==
    failmsgs' = [failmsgs EXCEPT ![h] = IF ok THEN Append(@, msg) ELSE @]

\* main.py:382-397: a message arrives and its handler runs up to its first
\* await, the reply to an invalid link or the "processing" reply.  The new
\* coroutine is given the first handler that is not in flight.
Receive(h, u, url) ==
    /\ ~InFlight(h)
    /\ \A k \in Handlers : k < h => InFlight(k)
    /\ nreq < MaxRequests
    /\ nreq' = nreq + 1
    /\ now' = now + 1
    /\ req' = [req EXCEPT ![h] = [id |-> nreq + 1, user |-> u, url |-> url]]
    /\ pc' = [pc EXCEPT ![h] =
                IF is_valid_url(url) THEN "reply_processing" ELSE "reply_invalid"]
    /\ filename' = [filename EXCEPT ![h] = NoPath]
    /\ file_size' = [file_size EXCEPT ![h] = 0]
    /\ delivered' = [delivered EXCEPT ![h] = None]
    /\ failmsgs' = [failmsgs EXCEPT ![h] = << >>]
    /\ raised' = [raised EXCEPT ![h] = {}]
    /\ cookiefile' = [cookiefile EXCEPT ![h] = NotCalled]
    /\ UNCHANGED <<cookiesPath, cookieFiles, engineVars, upload, fs, ledgerVars>>

\* main.py:387-395: the reply to an invalid link completes; the handler
\* returns.  A raise leaves the handler too.
ReplyInvalid(h, ok) ==
    /\ pc[h] = "reply_invalid"
    /\ pc' = [pc EXCEPT ![h] = "done"]
    /\ Shows(h, "invalid link", ok)
    /\ Gateway(h, "reply_invalid", ok)
    /\ UNCHANGED cookieVars
    /\ UNCHANGED <<req, engineVars, localVars, delivered, fs, ledgerVars,
                   clockVars>>

\* main.py:397-399 and 186-285: the "processing" reply completes and
\* download_video looks for the cookie file (main.py:194, 230-231), then
\* queues sync_download for the executor.  The reply is
\* outside the try of the handler: a raise ends the handler.
ReplyProcessing(h, ok) ==
    /\ pc[h] = "reply_processing"
    /\ pc' = [pc EXCEPT ![h] = IF ok THEN "dl_queued" ELSE "done"]
    /\ Gateway(h, "reply_processing", ok)
    /\ cookiefile' = [cookiefile EXCEPT ![h] =
                        IF ok THEN find_cookiefile(cookiesPath, cookieFiles)
                        ELSE @]
    /\ UNCHANGED <<cookiesPath, cookieFiles>>
    /\ UNCHANGED <<req, engineVars, localVars, delivered, failmsgs, fs,
                   ledgerVars, clockVars>>

-----------------------------------------------------------------------------
(* sync_download, in the executor thread (main.py:236-283).                *)

\* loop.run_in_executor(None, ...) (main.py:285) uses the event loop's
\* default executor, a thread pool of min(32, cpu_count + 4) workers: at
\* least five.
ExecutorWorkers == 5

\* The handlers whose sync_download occupies a worker of the pool.
InExecutor == {"dl_probe", "dl_transfer", "dl_locate", "dl_rename"}
Occupied == Cardinality({k \in Handlers : pc[k] \in InExecutor})

\* StartDownload with one download running at a time.
StartDownloadOneAtATime(h) ==
    /\ pc[h] = "dl_queued"
    /\ Occupied = 0
    /\ pc' = [pc EXCEPT ![h] = "dl_probe"]
    /\ UNCHANGED <<req, engineVars, localVars, userVars, fs, ledgerVars,
                   clockVars, cookieVars>>

\* main.py:285: a free worker of the pool takes the queued sync_download.
StartDownload(h) ==
    /\ pc[h] = "dl_queued"
    /\ Occupied < ExecutorWorkers
    /\ pc' = [pc EXCEPT ![h] = "dl_probe"]
    /\ UNCHANGED <<req, engineVars, localVars, userVars, fs, ledgerVars,
                   clockVars, cookieVars>>

FutRaise(e) == <<"raise", e>>
FutReturn(v) == <<"return", v>>

\* info.get("title", "video") (main.py:283): the title the backend reports
\* for the link, identified by the link.
TitleOf(url) == url

\* main.py:242-251: the probe, then the size check.  The probe raises e
\* (outcome <<"raise", e>>) or returns info i (outcome <<"info", i>>).
Probe(h, outcome) ==
    /\ pc[h] = "dl_probe"
    /\ IF outcome[1] = "raise"
       THEN /\ future' = [future EXCEPT ![h] = Some(FutRaise(outcome[2]))]
            /\ pc' = [pc EXCEPT ![h] = "dl_finished"]
            /\ UNCHANGED info
       ELSE /\ info' = [info EXCEPT ![h] = Some(outcome[2])]
            /\ IF SizeOverCeiling(outcome[2])
               THEN /\ future' = [future EXCEPT ![h] =
                                    Some(FutRaise(Exc("Exception", MsgOversize)))]
                    /\ pc' = [pc EXCEPT ![h] = "dl_finished"]
               ELSE /\ pc' = [pc EXCEPT ![h] = "dl_transfer"]
                    /\ UNCHANGED future
    /\ UNCHANGED cookieVars
    /\ UNCHANGED <<req, ret, transferred, localVars, userVars, fs, ledgerVars,
                   clockVars>>

\* main.py:254-255: the transfer.  It raises e (outcome <<"raise", e>>), or
\* it returns info with extension ext having written a file of extension
\* actual and some size under the template (<<"wrote", ext, actual, size>>),
\* or having written nothing (<<"skipped", ext>>): the backend skips a file
\* that is over max_filesize and a name that is already there.
Transfer(h, outcome) ==
    /\ pc[h] = "dl_transfer"
    /\ transferred' = [transferred EXCEPT ![h] = TRUE]
    /\ IF outcome[1] = "raise"
       THEN /\ future' = [future EXCEPT ![h] = Some(FutRaise(outcome[2]))]
            /\ pc' = [pc EXCEPT ![h] = "dl_finished"]
            /\ UNCHANGED <<filename, fs>>
       ELSE /\ filename' = [filename EXCEPT ![h] = prepare_filename(outcome[2])]
            /\ pc' = [pc EXCEPT ![h] = "dl_locate"]
            /\ UNCHANGED future
            /\ fs' = IF outcome[1] = "wrote"
                     THEN WriteFile(fs, <<OutTmpl, outcome[3]>>,
                                    [owner |-> req[h].id, size |-> outcome[4]])
                     ELSE fs
    /\ UNCHANGED cookieVars
    /\ UNCHANGED <<req, info, ret, file_size, upload, userVars, ledgerVars,
                   clockVars>>

\* main.py:258-264.
LocateStep(h) ==
    /\ pc[h] = "dl_locate"
    /\ filename' = [filename EXCEPT ![h] = Locate(fs, filename[h])]
    /\ pc' = [pc EXCEPT ![h] = "dl_rename"]
    /\ UNCHANGED cookieVars
    /\ UNCHANGED <<req, engineVars, file_size, upload, userVars, fs, ledgerVars,
                   clockVars>>

\* main.py:267-278: whether os.rename is attempted, and the name and the
\* directory afterwards.  renameOk: os.rename does not raise.
RenameAttempted(f, name) == name[2] # "mp4" /\ Exists(f, name)
NameAfterRename(f, name, renameOk) ==
    LET new_filename == <<name[1], "mp4">> IN
    IF name[2] = "mp4" THEN name
    ELSE IF Exists(f, name) THEN (IF renameOk THEN new_filename ELSE name)
    ELSE IF Exists(f, new_filename) THEN new_filename
    ELSE name
FsAfterRename(f, name, renameOk) ==
    IF RenameAttempted(f, name) /\ renameOk
    THEN RenameFile(f, name, <<name[1], "mp4">>)
    ELSE f

\* main.py:267-283: the rename to .mp4 and the return of sync_download.
RenameStep(h, renameOk) ==
    /\ pc[h] = "dl_rename"
    /\ renameOk \/ RenameAttempted(fs, filename[h])
    /\ fs' = FsAfterRename(fs, filename[h], renameOk)
    /\ filename' = [filename EXCEPT ![h] =
                      NameAfterRename(fs, filename[h], renameOk)]
    /\ future' = [future EXCEPT ![h] =
                    Some(FutReturn(<<filename'[h], TitleOf(req[h].url)>>))]
    /\ pc' = [pc EXCEPT ![h] = "dl_finished"]
    /\ UNCHANGED cookieVars
    /\ UNCHANGED <<req, info, ret, transferred, file_size, upload, userVars,
                   ledgerVars, clockVars>>

-----------------------------------------------------------------------------
(* handle_message after the download (main.py:399-456).                    *)

\* main.py:285-317: what the awaited future makes download_video return.
DownloadReturn(fut) ==
    IF fut[1] = "raise" THEN ReturnError(fut[2])
    ELSE ReturnResult(fut[2][1], fut[2][2])

\* main.py:411.
TooLarge(size) == size > Ceiling

\* main.py:399-419 and 448-456: the future is done; download_video
\* returns and the handler runs up to its next await.
Resume(h) ==
    /\ pc[h] = "dl_finished"
    /\ LET r == DownloadReturn(Val(future[h])) IN
       /\ ret' = [ret EXCEPT ![h] = Some(r)]
       /\ IF ResultTruthy(r)
          THEN LET name == Val(r.result)[1] IN
               /\ filename' = [filename EXCEPT ![h] = name]
               /\ IF ~Exists(fs, name)
                  THEN /\ pc' = [pc EXCEPT ![h] = "edit_notfound"]
                       /\ UNCHANGED file_size
                  ELSE /\ file_size' = [file_size EXCEPT ![h] = fs[name].size]
                       /\ pc' = [pc EXCEPT ![h] =
                                   IF TooLarge(fs[name].size) THEN "edit_toolarge"
                                   ELSE "edit_sending"]
          ELSE /\ pc' = [pc EXCEPT ![h] = "edit_error"]
               /\ UNCHANGED <<filename, file_size>>
    /\ UNCHANGED cookieVars
    /\ UNCHANGED <<req, info, future, transferred, upload, userVars, fs,
                   ledgerVars, clockVars>>

\* Once the handler moves on, the engine's outcome is no longer looked at.
ForgetEngine(h) ==
    /\ info' = [info EXCEPT ![h] = None]
    /\ future' = [future EXCEPT ![h] = None]
    /\ ret' = [ret EXCEPT ![h] = None]
    /\ transferred' = [transferred EXCEPT ![h] = FALSE]

\* main.py:448-456: the failure message of the else branch completes.
EditError(h, ok) ==
    /\ pc[h] = "edit_error"
    /\ pc' = [pc EXCEPT ![h] = "done"]
    /\ Shows(h, "download failed", ok)
    /\ Gateway(h, "edit_error", ok)
    /\ ForgetEngine(h)
    /\ UNCHANGED cookieVars
    /\ UNCHANGED <<req, localVars, delivered, fs, ledgerVars, clockVars>>

\* main.py:403-406: "file not found" completes and the handler returns;
\* a raise enters the except clause (main.py:440-442).
EditNotFound(h, ok) ==
    /\ pc[h] = "edit_notfound"
    /\ pc' = [pc EXCEPT ![h] = IF ok THEN "done" ELSE "edit_failed"]
    /\ Shows(h, "file not found", ok)
    /\ Gateway(h, "edit_notfound", ok)
    /\ ForgetEngine(h)
    /\ UNCHANGED cookieVars
    /\ UNCHANGED <<req, localVars, delivered, fs, ledgerVars, clockVars>>

\* main.py:411-417: "too large" completes, then os.remove and return.
\* os.remove raises when the file is gone; a raise of either enters the
\* except clause.
EditTooLarge(h, ok) ==
    /\ pc[h] = "edit_toolarge"
    /\ Shows(h, "too large", ok)
    /\ IF ok /\ Exists(fs, filename[h])
       THEN /\ fs' = RemoveFile(fs, filename[h])
            /\ pc' = [pc EXCEPT ![h] = "done"]
            /\ UNCHANGED raised
       ELSE /\ pc' = [pc EXCEPT ![h] = "edit_failed"]
            /\ raised' = [raised EXCEPT ![h] =
                            @ \cup {IF ok THEN "os.remove" ELSE "edit_toolarge"}]
            /\ UNCHANGED fs
    /\ ForgetEngine(h)
    /\ UNCHANGED cookieVars
    /\ UNCHANGED <<req, localVars, delivered, ledgerVars, clockVars>>

\* main.py:419-430: "sending" completes and reply_video starts.
EditSending(h, ok) ==
    /\ pc[h] = "edit_sending"
    /\ pc' = [pc EXCEPT ![h] = IF ok THEN "reply_video" ELSE "edit_failed"]
    /\ Gateway(h, "edit_sending", ok)
    /\ ForgetEngine(h)
    /\ UNCHANGED cookieVars
    /\ UNCHANGED <<req, localVars, delivered, failmsgs, fs, ledgerVars,
                   clockVars>>

\* What one call of update_user_stats or get_user_stats did to the ledger.
LoadResult(led, ioFails) ==
    IF load_fails(led, ioFails) THEN "failed"
    ELSE IF led.state = "missing" THEN "missing" ELSE "ok"

\* types.FSInputFile(filename) is read while reply_video is awaited
\* (main.py:425-430): the upload takes the file that is under the name at
\* that moment; a missing file makes reply_video raise.
UploadRead(h) ==
    /\ pc[h] = "reply_video"
    /\ IF Exists(fs, filename[h])
       THEN /\ upload' = [upload EXCEPT ![h] = Some(fs[filename[h]].owner)]
            /\ pc' = [pc EXCEPT ![h] = "uploading"]
            /\ UNCHANGED raised
       ELSE /\ pc' = [pc EXCEPT ![h] = "edit_failed"]
            /\ raised' = [raised EXCEPT ![h] = @ \cup {"reply_video"}]
            /\ UNCHANGED upload
    /\ UNCHANGED cookieVars
    /\ UNCHANGED <<req, engineVars, filename, file_size, delivered, failmsgs, fs,
                   ledgerVars, clockVars>>

\* main.py:425-438: reply_video returns; update_user_stats and os.remove
\* run, and processing_msg.delete() starts.  ioFails and outcome are the
\* fates of the ledger's read and write.  A raise of reply_video, of
\* update_user_stats or of os.remove (the file is gone) enters the except
\* clause.
ReplyVideo(h, ok, ioFails, outcome) ==
    /\ pc[h] = "uploading"
    /\ upload' = [upload EXCEPT ![h] = None]
    /\ IF ok
       THEN /\ delivered' = [delivered EXCEPT ![h] = upload[h]]
            /\ deliveries' = [deliveries EXCEPT
                               ![req[h].user][detect_platform(req[h].url)] = @ + 1]
            /\ bytesSent' = [bytesSent EXCEPT ![req[h].user] = @ + file_size[h]]
            /\ ledger' = update_user_stats(ledger, req[h].user,
                             detect_platform(req[h].url), file_size[h], now,
                             ioFails, outcome)
            /\ lastIO' = [load |-> LoadResult(ledger, ioFails), save |-> outcome]
            /\ storageFault' =
                 (storageFault \/ load_fails(ledger, ioFails) \/ outcome # "ok")
            /\ IF ~update_raises(ledger, ioFails, outcome)
                  /\ Exists(fs, filename[h])
               THEN /\ fs' = RemoveFile(fs, filename[h])
                    /\ pc' = [pc EXCEPT ![h] = "delete"]
                    /\ UNCHANGED raised
               ELSE /\ pc' = [pc EXCEPT ![h] = "edit_failed"]
                    /\ raised' = [raised EXCEPT ![h] = @ \cup
                                    {IF update_raises(ledger, ioFails, outcome)
                                     THEN "update_user_stats" ELSE "os.remove"}]
                    /\ UNCHANGED fs
       ELSE /\ pc' = [pc EXCEPT ![h] = "edit_failed"]
            /\ raised' = [raised EXCEPT ![h] = @ \cup {"reply_video"}]
            /\ UNCHANGED <<delivered, deliveries, bytesSent, ledger, lastIO,
                           storageFault, fs>>
    /\ UNCHANGED cookieVars
    /\ UNCHANGED <<req, engineVars, filename, file_size, failmsgs, snapshot,
                   clockVars>>

\* main.py:438: processing_msg.delete() completes and the handler ends; a
\* raise enters the except clause.
Delete(h, ok) ==
    /\ pc[h] = "delete"
    /\ pc' = [pc EXCEPT ![h] = IF ok THEN "done" ELSE "edit_failed"]
    /\ Gateway(h, "delete", ok)
    /\ UNCHANGED cookieVars
    /\ UNCHANGED <<req, engineVars, localVars, delivered, failmsgs, fs,
                   ledgerVars, clockVars>>

\* main.py:440-447, the except clause: "could not send" completes, then
\* the file is removed if it is there.  If the edit raises, the exception
\* leaves the handler and the removal is not reached.
EditFailed(h, ok) ==
    /\ pc[h] = "edit_failed"
    /\ pc' = [pc EXCEPT ![h] = "done"]
    /\ Shows(h, "could not send", ok)
    /\ Gateway(h, "edit_failed", ok)
    /\ fs' = IF ok /\ Exists(fs, filename[h]) THEN RemoveFile(fs, filename[h])
             ELSE fs
    /\ UNCHANGED cookieVars
    /\ UNCHANGED <<req, engineVars, localVars, delivered, ledgerVars, clockVars>>

\* main.py:342-354: the statistics button; get_user_stats reads the ledger.
ShowStats(u, ioFails) ==
    /\ snapshot' = [user |-> u, stats |-> get_user_stats(ledger, u, ioFails)]
    /\ lastIO' = [load |-> LoadResult(ledger, ioFails), save |-> "none"]
    /\ storageFault' = (storageFault \/ load_fails(ledger, ioFails))
    /\ UNCHANGED cookieVars
    /\ UNCHANGED <<pc, req, engineVars, localVars, userVars, fs, ledger,
                   deliveries, bytesSent, clockVars>>

-----------------------------------------------------------------------------
(* The environment: what the backend, the gateway and the ledger's storage *)
(* may do.                                                                 *)
ProbeOutcomes(excs, infos) ==
    {<<"raise", e>> : e \in excs} \cup {<<"info", i>> : i \in infos}
TransferOutcomes(excs, exts, sizes) ==
    {<<"raise", e>> : e \in excs}
    \cup {<<"skipped", x>> : x \in exts}
    \cup {<<"wrote", x, a, s>> : x \in exts, a \in exts, s \in sizes}

\* The steps of the handlers sc.handlers when messages are among sc.urls,
\* the backend raises one of sc.excs, probes one of sc.infos and names and
\* writes files with the extensions sc.exts and the sizes sc.sizes, the
\* gateway's text calls and reply_video end as in sc.text and sc.video
\* (TRUE: without raising), and the ledger's reads and writes end as in
\* sc.reads (TRUE: the read raises) and sc.writes.
Step(sc) ==
    \/ \E h \in sc.handlers, u \in Users, url \in sc.urls : Receive(h, u, url)
    \/ \E h \in sc.handlers, ok \in sc.text : ReplyInvalid(h, ok)
    \/ \E h \in sc.handlers, ok \in sc.text : ReplyProcessing(h, ok)
    \/ \E h \in sc.handlers : StartDownload(h)
    \/ \E h \in sc.handlers, o \in ProbeOutcomes(sc.excs, sc.infos) : Probe(h, o)
    \/ \E h \in sc.handlers, o \in TransferOutcomes(sc.excs, sc.exts, sc.sizes) :
          Transfer(h, o)
    \/ \E h \in sc.handlers : LocateStep(h)
    \/ \E h \in sc.handlers, renameOk \in BOOLEAN : RenameStep(h, renameOk)
    \/ \E h \in sc.handlers : Resume(h)
    \/ \E h \in sc.handlers, ok \in sc.text : EditError(h, ok)
    \/ \E h \in sc.handlers, ok \in sc.text : EditNotFound(h, ok)
    \/ \E h \in sc.handlers, ok \in sc.text : EditTooLarge(h, ok)
    \/ \E h \in sc.handlers, ok \in sc.text : EditSending(h, ok)
    \/ \E h \in sc.handlers : UploadRead(h)
    \/ \E h \in sc.handlers, ok \in sc.video, ioFails \in sc.reads,
          outcome \in sc.writes : ReplyVideo(h, ok, ioFails, outcome)
    \/ \E h \in sc.handlers, ok \in sc.text : Delete(h, ok)
    \/ \E h \in sc.handlers, ok \in sc.text : EditFailed(h, ok)

\* Two requests in flight at once.  The backend's failures and the files
\* it writes are a few of each kind; text calls of the gateway and the
\* ledger's storage work.
Concurrent ==
    [handlers |-> Handlers,
     urls |-> Urls,
     excs |-> {Exc("DownloadError", MsgTimeout)},
     infos |-> {[filesize |-> None, filesize_approx |-> None],
                [filesize |-> None, filesize_approx |-> Some(Ceiling + 1)]},
     exts |-> {"mp4", "webm"},
     sizes |-> {Ceiling, Ceiling + 1},
     text |-> {TRUE},
     video |-> BOOLEAN,
     reads |-> {FALSE},
     writes |-> {"ok"}]

Next == Step(Concurrent)

Spec == Init /\ [][Next]_vars

\* One request at a time and every failure and every file the backend may
\* produce; text calls of the gateway and the ledger's storage work, the
\* upload may fail.

Engine ==
    [handlers |-> {1},
     urls |-> Urls,
     excs |-> BackendExceptions,
     infos |-> Infos,
     exts |-> MediaExts,
     sizes |-> FileSizes,
     text |-> {TRUE},
     video |-> BOOLEAN,
     reads |-> {FALSE},
     writes |-> {"ok"}]

NextEngine == Step(Engine)

SpecEngine == Init /\ [][NextEngine]_vars

\* One request at a time; every call of the gateway may raise and every
\* read and write of the ledger may fail; users also ask for their
\* statistics.
Faults ==
    [handlers |-> {1},
     urls |-> Urls,
     excs |-> {Exc("DownloadError", MsgTimeout)},
     infos |-> {[filesize |-> None, filesize_approx |-> None],
                [filesize |-> None, filesize_approx |-> Some(Ceiling + 1)]},
     exts |-> {"mp4", "webm"},
     sizes |-> FileSizes,
     text |-> BOOLEAN,
     video |-> BOOLEAN,
     reads |-> BOOLEAN,
     writes |-> SaveOutcomes]

NextFaults ==
    \/ Step(Faults)
    \/ \E u \in Users, ioFails \in BOOLEAN : ShowStats(u, ioFails)

SpecFaults == Init /\ [][NextFaults]_vars


\* One request at a time, started with any value of COOKIES_PATH and
\* anything at the candidate paths of the cookie file; the backend, the
\* gateway and the ledger do little else.
Discovery ==
    [handlers |-> {1},
     urls |-> {UrlYouTube, UrlBad},
     excs |-> {Exc("DownloadError", MsgTimeout)},
     infos |-> {[filesize |-> None, filesize_approx |-> None]},
     exts |-> {"mp4"},
     sizes |-> {1024, Ceiling + 1},
     text |-> {TRUE},
     video |-> BOOLEAN,
     reads |-> {FALSE},
     writes |-> {"ok"}]

NextCookies == Step(Discovery)

SpecCookies == InitCookies /\ [][NextCookies]_vars

\* One request at a time; the backend names and writes files of every
\* extension, and earlier requests leave files behind when the gateway
\* fails them.
Files ==
    [handlers |-> {1},
     urls |-> {UrlYouTube, UrlBad},
     excs |-> {Exc("DownloadError", MsgTimeout)},
     infos |-> {[filesize |-> None, filesize_approx |-> None]},
     exts |-> MediaExts,
     sizes |-> {1024, Ceiling + 1},
     text |-> BOOLEAN,
     video |-> BOOLEAN,
     reads |-> {FALSE},
     writes |-> {"ok"}]

NextFiles == Step(Files)

SpecFiles == Init /\ [][NextFiles]_vars

\* Two requests in flight at once, as in Concurrent with fewer inputs, for
\* what must eventually happen.
Live ==
    [handlers |-> Handlers,
     urls |-> {UrlYouTube, UrlBad},
     excs |-> {Exc("DownloadError", MsgTimeout)},
     infos |-> {[filesize |-> None, filesize_approx |-> None]},
     exts |-> {"mp4"},
     sizes |-> {1024, Ceiling + 1},
     text |-> {TRUE},
     video |-> BOOLEAN,
     reads |-> {FALSE},
     writes |-> {"ok"}]

\* The steps of handler h that the event loop runs: a gateway call it
\* awaits completes, or the awaited future is done, and the coroutine runs
\* to its next await.
LoopStepOf(sc, h) ==
    \/ \E ok \in sc.text : ReplyInvalid(h, ok)
    \/ \E ok \in sc.text : ReplyProcessing(h, ok)
    \/ Resume(h)
    \/ \E ok \in sc.text : EditError(h, ok)
    \/ \E ok \in sc.text : EditNotFound(h, ok)
    \/ \E ok \in sc.text : EditTooLarge(h, ok)
    \/ \E ok \in sc.text : EditSending(h, ok)
    \/ UploadRead(h)
    \/ \E ok \in sc.video, ioFails \in sc.reads, outcome \in sc.writes :
          ReplyVideo(h, ok, ioFails, outcome)
    \/ \E ok \in sc.text : Delete(h, ok)
    \/ \E ok \in sc.text : EditFailed(h, ok)

\* The steps of handler h's sync_download, which a worker of the pool runs.
ExecutorStepOf(sc, h) ==
    \/ StartDownload(h)
    \/ \E o \in ProbeOutcomes(sc.excs, sc.infos) : Probe(h, o)
    \/ \E o \in TransferOutcomes(sc.excs, sc.exts, sc.sizes) : Transfer(h, o)
    \/ LocateStep(h)
    \/ \E renameOk \in BOOLEAN : RenameStep(h, renameOk)

NextLive == Step(Live)

\* The event loop keeps running every coroutine that is ready and the
\* gateway answers every call; the backend finishes the download of the
\* request that came second, while that of the request that came first may
\* take for ever.
SpecLive ==
    /\ Init
    /\ [][NextLive]_vars
    /\ \A h \in Handlers : WF_vars(LoopStepOf(Live, h))
    /\ WF_vars(ExecutorStepOf(Live, 2))
-----------------------------------------------------------------------------
(* Properties.                                                             *)

RECURSIVE SumOver(_, _)
SumOver(f, S) ==
    IF S = {} THEN 0
    ELSE LET x == CHOOSE y \in S : TRUE IN f[x] + SumOver(f, S \ {x})

\* The dictionary in the persisted document (empty when there is none).
Persisted(led) == IF led.state = "ok" THEN led.stats ELSE EmptyMap
DeliveriesTo(u) == SumOver(deliveries[u], Platforms)
CountOf(stats, u) == IF u \in DOMAIN stats THEN stats[u].downloads_count ELSE 0
BytesOf(stats, u) == IF u \in DOMAIN stats THEN stats[u].total_size ELSE 0
HistOf(stats, u, p) ==
    IF u \in DOMAIN stats THEN PlatformCount(stats[u].platforms, p) ELSE 0

\* C1: whenever download_video has returned, exactly one slot of the pair
\* is populated: (a (path, title) pair, None) or (None, a non-empty error
\* description), whatever the backend raised and wherever.
C1_ExactlyOneSlot ==
    \A h \in Handlers :
        ret[h] # None =>
            LET r == Val(ret[h]) IN
            \/ /\ r.result # None
               /\ Len(Val(r.result)) = 2
               /\ r.error = None
            \/ /\ r.result = None
               /\ r.error # None
               /\ Len(Val(r.error)) > 0

\* C1 witness: download_video returned an error for a failure raised during
\* the transfer.
C1_Witness ==
    \E h \in Handlers :
        /\ ret[h] # None
        /\ transferred[h]
        /\ Val(ret[h]).result = None
        /\ Val(ret[h]).error # None

\* Some size field of the probe's info is over the ceiling.
AnySizeFieldOver(i) ==
    \/ i.filesize # None /\ Val(i.filesize) > Ceiling
    \/ i.filesize_approx # None /\ Val(i.filesize_approx) > Ceiling

\* The exact size if it is present and not zero, else the approximate
\* size, is over the ceiling.
PreferredSizeOver(i) ==
    IF i.filesize # None /\ Val(i.filesize) # 0
    THEN Val(i.filesize) > Ceiling
    ELSE i.filesize_approx # None /\ Val(i.filesize_approx) > Ceiling

\* C2 as stated: when the probe reports a size, exact or approximate, over
\* 50 MiB, the transfer is never invoked.
C2_AnySizeBlocksTransfer ==
    \A h \in Handlers :
        (info[h] # None /\ AnySizeFieldOver(Val(info[h]))) => ~transferred[h]

\* C2 amended: when the size the probe reports (the exact size if present
\* and not zero, else the approximate size) is over 50 MiB, the transfer is
\* never invoked and download_video returns (None, error); the transfer is
\* reached only when that size is absent, zero or at most 50 MiB.
C2_PreferredSizeBlocksTransfer ==
    \A h \in Handlers :
        info[h] # None =>
            /\ PreferredSizeOver(Val(info[h])) =>
                  /\ ~transferred[h]
                  /\ pc[h] \in {"dl_finished", "edit_error"}
                  /\ ret[h] # None =>
                        /\ Val(ret[h]).result = None
                        /\ Val(ret[h]).error # None
            /\ (transferred[h] \/ pc[h] = "dl_transfer") =>
                  ~PreferredSizeOver(Val(info[h]))

\* C2 witness: the probe reported only an approximate size, over the
\* ceiling, and download_video returned an error without a transfer.
C2_Witness ==
    \E h \in Handlers :
        /\ info[h] # None
        /\ Val(info[h]).filesize = None
        /\ Val(info[h]).filesize_approx = Some(Ceiling + 1)
        /\ ~transferred[h]
        /\ ret[h] # None
        /\ Val(ret[h]).result = None

\* C3: once the handler of a message with a valid link has finished, the
\* user has been given the media or a failure message, and not both (here
\* with no text call of the gateway raising).
C3_ExactlyOneOutcome ==
    \A h \in Handlers :
        (pc[h] = "done" /\ is_valid_url(req[h].url)) =>
            ((delivered[h] # None) <=> (failmsgs[h] = << >>))

\* The ledger holds for user u what the deliveries to u amount to.
LedgerReflects(u) ==
    LET stats == Persisted(ledger) IN
    /\ (u \in DOMAIN stats) <=> (DeliveriesTo(u) > 0)
    /\ CountOf(stats, u) = DeliveriesTo(u)
    /\ BytesOf(stats, u) = bytesSent[u]
    /\ \A p \in Platforms : HistOf(stats, u, p) = deliveries[u][p]

\* C4: when two requests were in flight together and both delivered their
\* media, then after both handlers finished the document holds both
\* updates: every user's count, bytes and histogram reflect every record
\* call.  (The second handler is used only while the first is in flight.)
C4_NoLostUpdate ==
    (\A h \in Handlers : pc[h] = "done" /\ delivered[h] # None)
        => \A u \in Users : LedgerReflects(u)

\* C4 witness: both handlers finished after delivering to the same user,
\* whose record counts two downloads.
C4_Witness ==
    /\ \A h \in Handlers : pc[h] = "done" /\ delivered[h] # None
    /\ req[1].user = req[2].user
    /\ CountOf(Persisted(ledger), req[1].user) = 2

\* C5: every request works under a file name of its own, so that the file
\* a request transmits is the artifact its own download produced and not
\* one that another request wrote under the same name.
C5_OwnTemporaryFile ==
    \A h \in Handlers : delivered[h] # None => Val(delivered[h]) = req[h].id

\* A step in which handler h delivers and update_user_stats runs with a
\* ledger it can read and write.
RecordsCleanly(h) ==
    /\ pc[h] = "uploading"
    /\ delivered'[h] # None
    /\ lastIO'.load # "failed"
    /\ lastIO'.save = "ok"

\* C6: record(user, platform, bytes) on a readable and writable ledger
\* creates the record if absent, adds 1 to downloadsCount, bytes to
\* totalBytes and 1 to histogram[platform], sets lastActivity to now, keeps
\* firstUse of an existing record and every other user's record; a query
\* right after the first record of a user returns count 1, bytes and
\* {platform: 1}.
C6_RecordContract ==
    [][\A h \in Handlers :
          RecordsCleanly(h) =>
              LET old == Persisted(ledger)
                  new == Persisted(ledger')
                  u == req[h].user
                  p == detect_platform(req[h].url)
              IN /\ ledger'.state = "ok"
                 /\ DOMAIN new = DOMAIN old \cup {u}
                 /\ new[u].downloads_count = CountOf(old, u) + 1
                 /\ new[u].total_size = BytesOf(old, u) + file_size[h]
                 /\ DOMAIN new[u].platforms =
                       (IF u \in DOMAIN old THEN DOMAIN old[u].platforms ELSE {})
                       \cup {p}
                 /\ \A q \in DOMAIN new[u].platforms :
                       new[u].platforms[q] =
                           HistOf(old, u, q) + (IF q = p THEN 1 ELSE 0)
                 /\ new[u].last_activity = now
                 /\ new[u].first_use =
                       (IF u \in DOMAIN old THEN old[u].first_use ELSE now)
                 /\ \A v \in DOMAIN old \ {u} : new[v] = old[v]
                 /\ u \notin DOMAIN old =>
                       get_user_stats(ledger', u, FALSE) =
                           Some([downloads_count |-> 1,
                                 total_size |-> file_size[h],
                                 platforms |-> [q \in {p} |-> 1],
                                 first_use |-> now,
                                 last_activity |-> now])
      ]_vars

\* C6 witness: a second record for a user, on a ledger read and written
\* without failure, next to another user's record.
C6_Witness ==
    /\ lastIO = [load |-> "ok", save |-> "ok"]
    /\ ledger.state = "ok"
    /\ \E u \in DOMAIN ledger.stats : ledger.stats[u].downloads_count = 2

\* C7: with the ledger's storage working, every user's downloadsCount
\* equals the number of deliveries made to that user, and the document
\* changes only in a step that delivers media, which adds exactly 1 to
\* that user's count: requests that end in a failure leave it unchanged.
C7_LedgerCountsDeliveries ==
    /\ [](\A u \in Users : CountOf(Persisted(ledger), u) = DeliveriesTo(u))
    /\ [][ledger' # ledger =>
             \E h \in Handlers :
                 /\ pc[h] = "uploading"
                 /\ delivered[h] = None /\ delivered'[h] # None
                 /\ CountOf(Persisted(ledger'), req[h].user) =
                       CountOf(Persisted(ledger), req[h].user) + 1
                 /\ \A v \in Users \ {req[h].user} :
                       CountOf(Persisted(ledger'), v) = CountOf(Persisted(ledger), v)
       ]_vars

\* C7 witness: a user got one video, then a request of the same user ended
\* in a failure message; the record still counts one download.
C7_Witness ==
    \E h, k \in Handlers :
        /\ pc[h] = "done" /\ delivered[h] # None
        /\ pc[k] = "done" /\ delivered[k] = None /\ failmsgs[k] # << >>
        /\ is_valid_url(req[k].url)
        /\ req[h].user = req[k].user
        /\ req[h].id < req[k].id
        /\ CountOf(Persisted(ledger), req[h].user) = 1

\* C8: when the engine reported success and the file is over 50 MiB, then
\* once the handler has finished the file was not transmitted, it is gone
\* from storage, and the user was told it is too large unless that very
\* message failed.
C8_OversizeDeleted ==
    \A h \in Handlers :
        (pc[h] = "done" /\ TooLarge(file_size[h])) =>
            /\ delivered[h] = None
            /\ ~Exists(fs, filename[h])
            /\ "edit_toolarge" \notin raised[h] =>
                  \E i \in 1..Len(failmsgs[h]) : failmsgs[h][i] = "too large"

\* C9: when reply_video raised, the downloaded file is gone from storage
\* once the handler has finished, whether or not the failure message that
\* follows could be shown.
C9_RemovedAfterSendFailure ==
    \A h \in Handlers :
        (pc[h] = "done" /\ "reply_video" \in raised[h]) =>
            ~Exists(fs, filename[h])

\* C10: a record that is in the persisted document stays there, its
\* downloadsCount and totalBytes never decrease, and a record call whose
\* read of the ledger fails leaves the document as it was.
C10_RecordsNeverLost ==
    [][/\ \A u \in DOMAIN Persisted(ledger) :
            /\ u \in DOMAIN Persisted(ledger')
            /\ CountOf(Persisted(ledger'), u) >= CountOf(Persisted(ledger), u)
            /\ BytesOf(Persisted(ledger'), u) >= BytesOf(Persisted(ledger), u)
       /\ \A h \in Handlers :
            (pc[h] = "uploading" /\ delivered'[h] # None
               /\ lastIO'.load = "failed") => ledger' = ledger
      ]_vars

\* A step in which handler h delivers and update_user_stats runs with a
\* read or a write of the ledger that fails.
RecordsWithFailure(h) ==
    /\ pc[h] = "uploading"
    /\ delivered'[h] # None
    /\ lastIO'.load = "failed" \/ lastIO'.save # "ok"

\* C11: a failed read or write of the ledger never prevents delivery and
\* is never shown to the user.  The ledger is touched by a request only in
\* the step that follows the transmission of its media; when its read or
\* write fails in that step, no failure message is produced, the temporary
\* file is removed and the handler goes on to delete its status message;
\* and a request that delivered, none of whose gateway calls raised, ends
\* with no failure message and its file removed, whatever the ledger did.
C11_LedgerFailureHidden ==
    /\ [](\A h \in Handlers :
            (pc[h] = "done" /\ delivered[h] # None /\ raised[h] = {}) =>
                /\ failmsgs[h] = << >>
                /\ ~Exists(fs, filename[h]))
    /\ [][/\ (ledger' # ledger) =>
               \E h \in Handlers :
                   pc[h] = "uploading" /\ delivered[h] = None
                   /\ delivered'[h] # None
          /\ \A h \in Handlers :
               RecordsWithFailure(h) =>
                   /\ failmsgs'[h] = failmsgs[h]
                   /\ raised'[h] = raised[h]
                   /\ Exists(fs, filename[h])
                   /\ ~Exists(fs', filename[h])
                   /\ pc'[h] = "delete"
       ]_vars

\* C11 witness: a request delivered its media, the write of the ledger was
\* refused, and the handler finished with no failure message and no file.
C11_Witness ==
    \E h \in Handlers :
        /\ pc[h] = "done"
        /\ delivered[h] # None
        /\ lastIO.save = "refused"
        /\ failmsgs[h] = << >>
        /\ fs = EmptyMap

\* C12: when the size check before the transfer finds the declared size
\* over the ceiling, the error description download_video returns is the
\* one it returns when the backend's maximum-downloads guard trips (the
\* SizeExceeded sentence), not the "download error" form carrying the raw
\* message.
C12_OversizeIsSizeExceeded ==
    \A h \in Handlers :
        (info[h] # None /\ SizeOverCeiling(Val(info[h])) /\ ret[h] # None) =>
            /\ Val(ret[h]).error = Some(Classify(Exc("MaxDownloadsReached", MsgEmpty)))
            /\ Val(ret[h]).error # Some(TxtDownloadFailed \o MsgOversize)

\* download_video returned an error description for an exception that
\* sync_download raised.
Failed(h) ==
    /\ future[h] # None
    /\ Val(future[h])[1] = "raise"
    /\ ret[h] # None
RaisedBy(h) == Val(future[h])[2]
DescriptionOf(h) == Val(Val(ret[h]).error)
HasPrefix(text, prefix) ==
    Len(text) >= Len(prefix) /\ SubSeq(text, 1, Len(prefix)) = prefix

\* C13: an UnsupportedError is described as unsupported content although
\* it is an ExtractorError; any other ExtractorError is AuthRequired if its
\* text has the bot-check marker, else FormatUnavailable if it has the
\* format marker, else CredentialsExpired if it has the cookies marker,
\* else ExtractionFailed followed by the raw text; and an extractor-level
\* failure never gets one of the generic descriptions.
C13_ExtractorCascade ==
    \A h \in Handlers :
        (Failed(h) /\ RaisedBy(h).cls \in {"UnsupportedError", "ExtractorError"}) =>
            LET e == RaisedBy(h)
                d == DescriptionOf(h)
                bot == \/ Contains(e.msg, MarkerBotCurly)
                       \/ Contains(e.msg, MarkerBotStraight)
                fmt == Contains(e.msg, MarkerFormat)
                cookies == Contains(e.msg, MarkerCookies)
            IN /\ e.cls = "UnsupportedError" => d = TxtUnsupported
               /\ e.cls = "ExtractorError" =>
                     /\ bot => d = TxtAuthRequired
                     /\ (~bot /\ fmt) => d = TxtFormatUnavailable
                     /\ (~bot /\ ~fmt /\ cookies) => d = TxtCookiesExpired
                     /\ (~bot /\ ~fmt /\ ~cookies) =>
                           d = TxtExtractionFailed \o e.msg
               /\ d \notin {TxtUnavailable, TxtPrivate, TxtAgeRestricted}
               /\ ~HasPrefix(d, TxtDownloadFailed)

\* C13 witness: an ExtractorError whose text has the format marker and the
\* bot-check marker, in that order, was described as AuthRequired.
C13_Witness ==
    \E h \in Handlers :
        /\ Failed(h)
        /\ RaisedBy(h) = Exc("ExtractorError", MsgFormatBot)
        /\ DescriptionOf(h) = TxtAuthRequired

\* The text has the word "age" (in any case) standing on its own, as in
\* "confirm your age" or "age-restricted", and not inside another word.
IsLetter(c) == \E i \in 1..26 : c = UpperLetters[i] \/ c = LowerLetters[i]
MentionsAge(text) ==
    LET t == Lower(text) IN
    \E i \in 1..(Len(t) - 2) :
        /\ SubSeq(t, i, i + 2) = MarkerAge
        /\ i > 1 => ~IsLetter(t[i - 1])
        /\ i + 3 <= Len(t) => ~IsLetter(t[i + 3])

\* C14: a failure that is neither the size guard nor extractor-level is
\* ContentUnavailable if its text mentions unavailable content, else
\* ContentPrivate if it mentions private content, else AgeRestricted if it
\* mentions an age restriction, else DownloadFailed followed by the raw
\* text; it is AgeRestricted only when the text mentions an age
\* restriction, and DownloadFailed whenever it mentions none of the three.
C14_GenericCascade ==
    \A h \in Handlers :
        (Failed(h) /\ ~IsInstance(RaisedBy(h).cls, "MaxDownloadsReached")
                   /\ ~IsInstance(RaisedBy(h).cls, "ExtractorError")) =>
            LET msg == RaisedBy(h).msg
                d == DescriptionOf(h)
                unavailable == Contains(msg, MarkerUnavailable)
                private == Contains(msg, MarkerPrivate)
                age == MentionsAge(msg)
            IN /\ unavailable => d = TxtUnavailable
               /\ (~unavailable /\ private) => d = TxtPrivate
               /\ (~unavailable /\ ~private /\ age) => d = TxtAgeRestricted
               /\ (~unavailable /\ ~private /\ ~age) => d = TxtDownloadFailed \o msg
               /\ d = TxtAgeRestricted => age

\* C15: when the transfer fails because the local storage refuses the
\* write (read-only file system), download_video returns a description of
\* its own, the ConfigurationError one: not the DownloadFailed or the
\* ExtractionFailed form with the raw text, and none of the other
\* classifications' sentences.
C15_ReadOnlyIsConfigurationError ==
    \A h \in Handlers :
        (Failed(h) /\ transferred[h]
                   /\ RaisedBy(h).cls \in {"OSError", "DownloadError"}
                   /\ RaisedBy(h).msg = MsgReadOnly) =>
            LET d == DescriptionOf(h) IN
            /\ ~HasPrefix(d, TxtDownloadFailed)
            /\ ~HasPrefix(d, TxtExtractionFailed)
            /\ d \notin {TxtSizeExceeded, TxtUnsupported, TxtAuthRequired,
                         TxtFormatUnavailable, TxtCookiesExpired,
                         TxtUnavailable, TxtPrivate, TxtAgeRestricted}

\* The candidates of cookie discovery in their order: the configured path,
\* when COOKIES_PATH names one, then the two fixed paths.
CandidateOrder ==
    IF cookiesPath \in {<< >>, EnvBlank} THEN <<PathSecrets, PathData>>
    ELSE <<PathCustom, PathSecrets, PathData>>

\* The file at path p is there, can be read, and its first line carries
\* one of the two cookie-jar headers.
Validates(p) ==
    /\ cookieFiles[p] \notin {MissingFile, UnreadableFile}
    /\ \E header \in {HeaderNetscape, HeaderHttp} :
          HasPrefix(Strip(cookieFiles[p].first), header)

\* C16: cookie discovery returns the first candidate, in the order
\* configured path then the fixed list, that exists and whose first line
\* carries one of the two headers; missing, unreadable and otherwise
\* headed candidates are skipped without ending the search; when no
\* candidate validates there is no cookie file and the download goes on.
C16_FirstValidCookieFile ==
    \A h \in Handlers :
        /\ pc[h] \in {"dl_queued", "dl_probe", "dl_transfer", "dl_locate",
                      "dl_rename", "dl_finished"} => cookiefile[h] # NotCalled
        /\ cookiefile[h] # NotCalled =>
              LET c == CandidateOrder
                  valid == {i \in 1..Len(c) : Validates(c[i])}
              IN /\ valid = {} <=> cookiefile[h] = None
                 /\ \A i \in valid :
                       (\A j \in valid : i <= j) => cookiefile[h] = Some(c[i])

\* C16 witness: the configured path cannot be read, the first fixed path
\* has another first line, the second one validates and is the one found,
\* and the request delivered its media.
C16_Witness ==
    \E h \in Handlers :
        /\ cookiesPath = EnvCustom
        /\ cookieFiles[PathCustom] = UnreadableFile
        /\ cookieFiles[PathSecrets] = TextFile(LineOther)
        /\ cookieFiles[PathData] = TextFile(LineHttp)
        /\ cookiefile[h] = Some(PathData)
        /\ delivered[h] # None

\* A step of the statistics query: no handler moves and the ledger is read.
QueryStep ==
    /\ pc' = pc
    /\ lastIO'.save = "none"
    /\ lastIO'.load # "none"

\* The last thing done with the ledger was a query about user u.
LastWasQueryOf(u) ==
    /\ lastIO.save = "none"
    /\ lastIO.load # "none"
    /\ snapshot.user = u

\* C17: a query never modifies the persisted document, and a query about a
\* user that follows a query about the same user with no record call in
\* between returns the same snapshot: the user's record, or none if the
\* user has none.
C17_QueryRepeatable ==
    [][QueryStep =>
          /\ ledger' = ledger
          /\ LastWasQueryOf(snapshot'.user) => snapshot'.stats = snapshot.stats
          /\ snapshot'.stats =
                (IF snapshot'.user \in DOMAIN Persisted(ledger)
                 THEN Some(Persisted(ledger)[snapshot'.user]) ELSE None)
      ]_vars

\* The value sync_download returned to handler h, once it has.
Returned(h) ==
    /\ pc[h] = "dl_finished"
    /\ future[h] # None
    /\ Val(future[h])[1] = "return"
ReturnedPath(h) == Val(future[h])[2][1]
Mp4Of(name) == <<name[1], "mp4">>

\* C18: after a completed transfer, when the expected name is absent the
\* extensions .mp4, .webm, .mkv, .avi are probed in that order and the
\* first existing one is taken; a located file that is not .mp4 is renamed
\* in place to .mp4, and when the rename fails the name is kept and
\* sync_download still returns; so whenever a file is there under the
\* expected name or a probed extension, the returned path names a file in
\* storage.
C18_FilenameReconciled ==
    /\ [](\A h \in Handlers :
            (Returned(h) /\ \E i \in 1..4 : Exists(fs, <<OutTmpl, ProbeExts[i]>>))
                => Exists(fs, ReturnedPath(h)))
    /\ [][\A h \in Handlers :
            /\ (pc[h] = "dl_locate" /\ pc'[h] # pc[h]) =>
                  LET expected == filename[h]
                      probed == [i \in 1..4 |->
                                    <<expected[1],
                                      <<"mp4", "webm", "mkv", "avi">>[i]>>]
                  IN /\ fs' = fs
                     /\ Exists(fs, expected) => filename'[h] = expected
                     /\ ~Exists(fs, expected) =>
                           \A i \in 1..4 :
                               (Exists(fs, probed[i])
                                  /\ \A j \in 1..(i - 1) : ~Exists(fs, probed[j]))
                               => filename'[h] = probed[i]
                     /\ (Exists(fs, expected) \/ \E i \in 1..4 : Exists(fs, probed[i]))
                           => Exists(fs, filename'[h])
            /\ (pc[h] = "dl_rename" /\ pc'[h] # pc[h]) =>
                  LET located == filename[h] IN
                  /\ Returned(h)'
                  /\ ReturnedPath(h)' = filename'[h]
                  /\ Exists(fs, located) => Exists(fs', filename'[h])
                  /\ (Exists(fs, located) /\ located[2] # "mp4") =>
                        \/ /\ filename'[h] = Mp4Of(located)
                           /\ fs'[Mp4Of(located)] = fs[located]
                           /\ ~Exists(fs', located)
                        \/ /\ filename'[h] = located
                           /\ fs' = fs
                  /\ located[2] = "mp4" => (filename'[h] = located /\ fs' = fs)
       ]_vars

\* C18 witness: the expected name was absent, two probed extensions were
\* there, the earlier in the order was taken, the rename to .mp4 failed,
\* and sync_download returned the kept name of a file in storage.
C18_Witness ==
    \E h \in Handlers :
        /\ Returned(h)
        /\ ReturnedPath(h) = <<OutTmpl, "webm">>
        /\ Exists(fs, <<OutTmpl, "webm">>)
        /\ Exists(fs, <<OutTmpl, "avi">>)
        /\ fs[<<OutTmpl, "webm">>].owner = req[h].id
        /\ ~Exists(fs, <<OutTmpl, "mp4">>)

\* C19: a download that never completes holds only its own worker.  While
\* the download of the request that came first is under way, a message
\* that arrives can be dispatched to a handler of its own, and that
\* handler, its own download terminating, eventually runs to completion,
\* whether or not the first download ever ends.
C19_StuckDownloadBlocksOnlyItself ==
    /\ []((pc[1] \in InExecutor /\ ~InFlight(2) /\ nreq < MaxRequests) =>
            ENABLED (\E u \in Users, url \in Urls : Receive(2, u, url)))
    /\ (InFlight(2) ~> pc[2] = "done")

\* C19 witness: the request of another user, which came second, has its
\* media delivered and its handler finished while the download of the
\* first request is still under way.
C19_Witness ==
    /\ pc[1] \in InExecutor
    /\ pc[2] = "done"
    /\ delivered[2] # None
    /\ req[2].id > req[1].id
    /\ req[2].user # req[1].user

\* C20: starting from an empty ledger and with its storage working, after
\* any record calls of handlers in any interleaving, every record in the
\* document has downloadsCount equal to the sum of its histogram's counts,
\* downloadsCount at least 1, every histogram count at least 1, and
\* totalBytes equal to the sum of the bytes passed to that user's record
\* calls.
C20_LedgerConsistent ==
    LET stats == Persisted(ledger) IN
    \A u \in DOMAIN stats :
        LET r == stats[u] IN
        /\ r.downloads_count = SumOver(r.platforms, DOMAIN r.platforms)
        /\ r.downloads_count >= 1
        /\ \A p \in DOMAIN r.platforms : r.platforms[p] >= 1
        /\ r.total_size = bytesSent[u]

\* C20 witness: two handlers that were in flight together both recorded a
\* delivery of the same platform to the same user.
C20_Witness ==
    /\ ledger.state = "ok"
    /\ \E u \in DOMAIN ledger.stats, p \in Platforms :
          /\ p \in DOMAIN ledger.stats[u].platforms
          /\ ledger.stats[u].platforms[p] = 2
          /\ ledger.stats[u].total_size = 2 * Ceiling
    /\ \A h \in Handlers : delivered[h] # None

=============================================================================
